---- MODULE Spec2Model ----
(***************************************************************************)
(* Link transcoding of cachho/tao-links: generateAgentLink (encode a       *)
(* marketplace item as an agent link), extractRawLink (decode an agent     *)
(* link back to the raw marketplace link) and the CnStoreLink constructor. *)
(*                                                                         *)
(* Text is modelled as a sequence of atoms.  An atom is one delimiter      *)
(* character (":", "/", "?", "=", "&", "#", "%", "-", ".") or a run of    *)
(* characters that no operation of the program splits.  Percent-encoding,  *)
(* URL parsing and query-string parsing work on these sequences the way    *)
(* the JavaScript runtime works on characters.                             *)
(***************************************************************************)
EXTENDS Integers, Sequences, FiniteSets, TLC

(***************************************************************************)
(* Bounds of the model.                                                    *)
(***************************************************************************)
NumIds == 3
NumReferrals == 2
NumTrackingTags == 1

(***************************************************************************)
(* Text primitives of the JavaScript runtime.                              *)
(***************************************************************************)
\* "" (also what `!x` tests besides null/undefined)
Empty == <<>>
\* JavaScript null and undefined, as a template literal prints them
Null == <<"null">>
Undefined == <<"undefined">>

Falsy(s) == s = Empty \/ s = Null \/ s = Undefined

\* characters that encodeURIComponent / the form-urlencoded serializer escape
Reserved == {":", "/", "?", "=", "&", "#", "%"}

PctCode(c) ==
  CASE c = ":" -> "3A"
    [] c = "/" -> "2F"
    [] c = "?" -> "3F"
    [] c = "=" -> "3D"
    [] c = "&" -> "26"
    [] c = "#" -> "23"
    [] c = "%" -> "25"

PctCodes == {PctCode(c) : c \in Reserved}

PctChar(code) == CHOOSE c \in Reserved : PctCode(c) = code

RECURSIVE encodeURIComponent(_)
encodeURIComponent(s) ==
  IF s = <<>> THEN <<>>
  ELSE (IF Head(s) \in Reserved THEN <<"%", PctCode(Head(s))>> ELSE <<Head(s)>>)
       \o encodeURIComponent(Tail(s))

\* a "%" that is not followed by two hex digits makes decodeURIComponent throw
RECURSIVE Malformed(_)
Malformed(s) ==
  IF s = <<>> THEN FALSE
  ELSE IF Head(s) = "%"
       THEN (Len(s) < 2 \/ s[2] \notin PctCodes) \/ Malformed(Tail(Tail(s)))
       ELSE Malformed(Tail(s))

\* percent-decoding of one level; a malformed escape is kept as it is
\* (the lenient behaviour of URLSearchParams)
RECURSIVE PercentDecode(_)
PercentDecode(s) ==
  IF s = <<>> THEN <<>>
  ELSE IF Head(s) = "%" /\ Len(s) >= 2 /\ s[2] \in PctCodes
       THEN <<PctChar(s[2])>> \o PercentDecode(Tail(Tail(s)))
       ELSE <<Head(s)>> \o PercentDecode(Tail(s))

\* decodeURIComponent: defined when the text is not Malformed
decodeURIComponent(s) == PercentDecode(s)

\* index of the first atom of s that is in set D, 0 when there is none
RECURSIVE IndexIn(_, _, _)
IndexIn(s, D, i) ==
  IF i > Len(s) THEN 0
  ELSE IF s[i] \in D THEN i ELSE IndexIn(s, D, i + 1)

IndexOf(s, D) == IndexIn(s, D, 1)

Before(s, D) == IF IndexOf(s, D) = 0 THEN s ELSE SubSeq(s, 1, IndexOf(s, D) - 1)
After(s, D) == IF IndexOf(s, D) = 0 THEN <<>> ELSE SubSeq(s, IndexOf(s, D) + 1, Len(s))
From(s, D) == IF IndexOf(s, D) = 0 THEN <<>> ELSE SubSeq(s, IndexOf(s, D), Len(s))

\* String.prototype.split(sep): the sequence of the pieces
RECURSIVE Split(_, _)
Split(s, sep) ==
  IF IndexOf(s, {sep}) = 0 THEN <<s>>
  ELSE <<Before(s, {sep})>> \o Split(After(s, {sep}), sep)

StartsWith(s, p) == Len(s) >= Len(p) /\ SubSeq(s, 1, Len(p)) = p

\* s.includes(p)
Includes(s, p) == \E i \in 1..(Len(s) + 1) : StartsWith(SubSeq(s, i, Len(s)), p)

RECURSIVE Join(_, _)
Join(parts, sep) ==
  IF parts = <<>> THEN <<>>
  ELSE IF Len(parts) = 1 THEN parts[1]
  ELSE parts[1] \o <<sep>> \o Join(Tail(parts), sep)

(***************************************************************************)
(* URLSearchParams: a list of <<name, value>> pairs of decoded text.       *)
(***************************************************************************)
\* urlParams.set(name, value)
RECURSIVE ParamsSet(_, _, _)
ParamsSet(ps, name, value) ==
  IF ps = <<>> THEN << <<name, value>> >>
  ELSE IF ps[1][1] = name THEN << <<name, value>> >> \o Tail(ps)
  ELSE <<ps[1]>> \o ParamsSet(Tail(ps), name, value)

\* urlParams.get(name): the first value, null when absent
RECURSIVE ParamsGet(_, _)
ParamsGet(ps, name) ==
  IF ps = <<>> THEN Null
  ELSE IF ps[1][1] = name THEN ps[1][2] ELSE ParamsGet(Tail(ps), name)

ParamsHas(ps, name) == \E i \in 1..Len(ps) : ps[i][1] = name

\* urlParams.toString(): name=value pairs, each side escaped, joined by "&"
RECURSIVE ParamsToString(_)
ParamsToString(ps) ==
  IF ps = <<>> THEN <<>>
  ELSE encodeURIComponent(ps[1][1]) \o <<"=">> \o encodeURIComponent(ps[1][2])
       \o (IF Len(ps) > 1 THEN <<"&">> \o ParamsToString(Tail(ps)) ELSE <<>>)

\* new URLSearchParams(text): split on "&", then on the first "=", then unescape
RECURSIVE ParsePairs(_)
ParsePairs(pieces) ==
  IF pieces = <<>> THEN <<>>
  ELSE (IF pieces[1] = <<>> THEN <<>>
        ELSE << <<PercentDecode(Before(pieces[1], {"="})),
                  PercentDecode(After(pieces[1], {"="}))>> >>)
       \o ParsePairs(Tail(pieces))

ParseParams(text) == IF text = <<>> THEN <<>> ELSE ParsePairs(Split(text, "&"))

(***************************************************************************)
(* URL objects: [host, pathname, search, hash]; search and hash are kept   *)
(* without their leading "?" and "#".                                      *)
(***************************************************************************)
Scheme == <<"https", ":", "/", "/">>

\* does `new URL(s)` succeed (it throws TypeError "Invalid URL" otherwise)
IsURL(s) ==
  /\ StartsWith(s, Scheme)
  /\ Len(s) > Len(Scheme)
  /\ s[Len(Scheme) + 1] \notin {"/", "?", "#", ":", "%", "=", "&"}

\* an empty path is "/"
RootIfEmpty(path) == IF path = <<>> THEN <<"/">> ELSE path

\* the parts of a URL from its host, what precedes its "#" and what follows
URLParts(host, beforeHash, hash) ==
  [host |-> host,
   pathname |-> RootIfEmpty(Before(beforeHash, {"?"})),
   search |-> After(beforeHash, {"?"}),
   hash |-> hash]

\* the text after the scheme: the host, then the path, the query and the hash
ParseAfterScheme(rest) ==
  URLParts(Before(rest, {"/", "?", "#"}),
           Before(From(rest, {"/", "?", "#"}), {"#"}),
           After(rest, {"#"}))

\* new URL(s) for a text with IsURL(s)
ParseURL(s) == ParseAfterScheme(SubSeq(s, Len(Scheme) + 1, Len(s)))

\* url.href
Href(u) ==
  Scheme \o u.host \o u.pathname
  \o (IF u.search = <<>> THEN <<>> ELSE <<"?">> \o u.search)
  \o (IF u.hash = <<>> THEN <<>> ELSE <<"#">> \o u.hash)

\* url.searchParams
SearchParams(u) == ParseParams(u.search)

(***************************************************************************)
(* Results of a call: a returned URL (its href) or a thrown Error (its     *)
(* message).                                                               *)
(***************************************************************************)
Return(href) == [ok |-> TRUE, href |-> href, message |-> <<>>]
Throw(message) == [ok |-> FALSE, href |-> <<>>, message |-> message]

\* new URL(text)
NewURL(text) ==
  IF IsURL(text) THEN Return(Href(ParseURL(text))) ELSE Throw(<<"Invalid URL">>)

(***************************************************************************)
(* Registries: the marketplaces, the agents and their hosts.               *)
(***************************************************************************)
marketplaces == {"weidian", "taobao", "1688", "tmall"}

\* a tag that is not in the marketplaces list (a non-link marketplace)
OtherMarketplace == "xianyu"

agents ==
  {"pandabuy", "wegobuy", "superbuy", "sugargoo", "cssbuy", "hagobuy", "hegobuy",
   "kameymall", "cnfans", "mulebuy", "ezbuycn", "hoobuy", "allchinabuy", "basetao",
   "eastmallbuy", "hubbuycn", "joyabuy", "orientdig", "oopbuy", "lovegobuy",
   "blikbuy", "ponybuy", "panglobalbuy", "sifubuy", "loongbuy", "acbuy"}

\* the registered domain of an agent (sugargoo also answers on esugargoo.com)
AgentDomain(agent) == agent \o ".com"

generateRawLink(marketplace, id) ==
  CASE marketplace = "weidian" ->
         Return(Scheme \o <<"weidian.com", "/", "item", ".", "html", "?", "itemID", "=">> \o id)
    [] marketplace = "taobao" ->
         Return(Scheme \o <<"item.taobao.com", "/", "item", ".", "htm", "?", "id", "=">> \o id)
    [] marketplace = "1688" ->
         Return(Scheme \o <<"detail.1688.com", "/", "offer", "/">> \o id \o <<".", "html">>)
    [] marketplace = "tmall" ->
         Return(Scheme \o <<"detail.tmall.com", "/", "item", ".", "htm", "?", "id", "=">> \o id)
    [] OTHER -> Throw(<<"Unsupported marketplace: ", marketplace>>)

\* Map.get(marketplace) of the three marketplace tables
oopbuyMarketplaceStrings(marketplace) ==
  CASE marketplace = "weidian" -> <<"weidian">>
    [] marketplace \in {"taobao", "tmall"} -> <<"1">>
    [] marketplace = "1688" -> <<"0">>
    [] OTHER -> Undefined

panglobalbuyMarketplaceStrings(marketplace) ==
  CASE marketplace \in {"taobao", "tmall"} -> <<"1">>
    [] marketplace = "1688" -> <<"2">>
    [] marketplace = "weidian" -> <<"3">>
    [] OTHER -> Undefined

sifubuyMarketplaceStrings(marketplace) ==
  CASE marketplace = "weidian" -> <<"1">>
    [] marketplace \in {"taobao", "tmall"} -> <<"2">>
    [] marketplace = "1688" -> <<"3">>
    [] OTHER -> Undefined

(***************************************************************************)
(* generateAgentLink                                                       *)
(***************************************************************************)
\* the domain in the URL literal of the branch of an agent
SiteHostOfHubbuy(agent) == IF agent = "hubbuycn" THEN "hubbuy.com" ELSE agent \o ".com"
SiteHost(agent) == agent \o ".com"

\* `https://${www}${agent}.com${path}`
Site(www, agent, path) == Scheme \o www \o <<SiteHost(agent)>> \o path

WWW == <<"www.">>
Bare == <<>>

\* if (referral) { urlParams.set(name, referral); }
SetReferralUnguarded(params, name, referral) ==
  ParamsSet(params, name, referral)
SetReferral(params, name, referral) ==
  IF Falsy(referral) THEN params ELSE ParamsSet(params, name, referral)

\* paramString ? `${url}?${paramString}` : url
WithParams(url, params) ==
  IF ParamsToString(params) = <<>> THEN url ELSE url \o <<"?">> \o ParamsToString(params)

\* ra ?? '1'
TrackingValueFixed(ra) == <<"1">>
TrackingValue(ra) == IF ra = Undefined \/ ra = Null THEN <<"1">> ELSE ra

\* the shop_type chain of cnfans, mulebuy, joyabuy and orientdig
ShopTypeWeidianAsTaobao(marketplace) ==
  CASE marketplace \in {"taobao", "tmall", "weidian"} -> <<"taobao">>
    [] marketplace = "1688" -> <<"ali_1688">>
    [] OTHER -> Undefined
ShopType(marketplace) ==
  CASE marketplace \in {"taobao", "tmall"} -> <<"taobao">>
    [] marketplace = "weidian" -> <<"weidian">>
    [] marketplace = "1688" -> <<"ali_1688">>
    [] OTHER -> Undefined

\* marketplace !== 'tmall' ? marketplace : 'taobao'
CorrectedMarketplace(marketplace) ==
  IF marketplace # "tmall" THEN <<marketplace>> ELSE <<"taobao">>

\* the agents that put the raw link under `url`, with what precedes it,
\* the path and the referral parameter
UrlAgentShape(agent) ==
  CASE agent = "wegobuy" ->
         [www |-> WWW, path |-> <<"/", "en", "/", "page", "/", "buy">>,
          pre |-> << <<<<"from">>, <<"search", "-", "input">>>> >>, ref |-> <<"partnercode">>]
    [] agent = "superbuy" ->
         [www |-> WWW, path |-> <<"/", "en", "/", "page", "/", "buy">>,
          pre |-> << <<<<"from">>, <<"search", "-", "input">>>> >>, ref |-> <<"partnercode">>]
    [] agent = "hagobuy" ->
         [www |-> WWW, path |-> <<"/", "item", "/", "details">>,
          pre |-> <<>>, ref |-> <<"affcode">>]
    [] agent = "hegobuy" ->
         [www |-> WWW, path |-> <<"/", "item", "/", "details">>,
          pre |-> <<>>, ref |-> <<"affcode">>]
    [] agent = "kameymall" ->
         [www |-> WWW, path |-> <<"/", "purchases", "/", "search", "/", "item">>,
          pre |-> <<>>, ref |-> <<"code">>]
    [] agent = "allchinabuy" ->
         [www |-> WWW, path |-> <<"/", "en", "/", "page", "/", "buy">>,
          pre |-> << <<<<"from">>, <<"search", "-", "input">>>> >>, ref |-> <<"partnercode">>]
    [] agent = "eastmallbuy" ->
         [www |-> Bare, path |-> <<"/", "index", "/", "item", "/", "index", ".", "html">>,
          pre |-> << <<<<"searchlang">>, <<"en">>>> >>, ref |-> <<"inviter">>]
    [] agent = "hubbuycn" ->
         [www |-> WWW, path |-> <<"/", "index", "/", "item", "/", "index", ".", "html">>,
          pre |-> << <<<<"searchlang">>, <<"en">>>> >>, ref |-> <<"inviter">>]
    [] agent = "blikbuy" ->
         [www |-> WWW, path |-> <<"/">>,
          pre |-> << <<<<"go">>, <<"item">>>> >>, ref |-> <<"icode">>]
    [] agent = "loongbuy" ->
         [www |-> WWW, path |-> <<"/", "product", "-", "details">>,
          pre |-> <<>>, ref |-> <<"invitecode">>]

UrlAgents ==
  {"wegobuy", "superbuy", "hagobuy", "hegobuy", "kameymall", "allchinabuy",
   "eastmallbuy", "hubbuycn", "blikbuy", "loongbuy"}

ShopTypeAgents == {"cnfans", "mulebuy", "joyabuy", "orientdig"}

\* urlParams.set('url', generateRawLink(marketplace, id).href): the name
\* under which pandabuy and the agents of UrlAgents embed the raw link
UrlParamNameOfLoongbuy(agent) == IF agent = "loongbuy" THEN <<"link">> ELSE <<"url">>
UrlParamName(agent) == <<"url">>

\* the branches of hoobuy: /product/0/ for 1688, /product/1/ for taobao and
\* tmall, /product/2/ for weidian, and none for another marketplace
HoobuyCodeSwapped(marketplace) ==
  CASE marketplace = "1688" -> <<"0">>
    [] marketplace \in {"taobao", "tmall"} -> <<"2">>
    [] marketplace = "weidian" -> <<"1">>
    [] OTHER -> Undefined
HoobuyCode(marketplace) ==
  CASE marketplace = "1688" -> <<"0">>
    [] marketplace \in {"taobao", "tmall"} -> <<"1">>
    [] marketplace = "weidian" -> <<"2">>
    [] OTHER -> Undefined

\* encodeURIComponent(generateRawLink(marketplace, id).href): the value set
\* under productLink, which urlParams.toString() encodes once more
SugargooProductLinkPlain(href) == href
SugargooProductLink(href) == encodeURIComponent(href)

generateAgentLink(agent, marketplace, id, referral, ra) ==
  LET raw == generateRawLink(marketplace, id) IN
  CASE agent = "pandabuy" ->
         IF ~raw.ok THEN raw
         ELSE NewURL(Site(WWW, agent, <<"/", "product", "?">>)
                \o ParamsToString(SetReferral(
                     << <<<<"ra">>, TrackingValue(ra)>>, <<UrlParamName(agent), raw.href>> >>,
                     <<"inviteCode">>, referral)))
    [] agent \in UrlAgents ->
         IF ~raw.ok THEN raw
         ELSE LET shape == UrlAgentShape(agent) IN
              NewURL(Site(shape.www, agent, shape.path) \o <<"?">>
                \o ParamsToString(SetReferral(
                     ParamsSet(shape.pre, UrlParamName(agent), raw.href),
                     shape.ref, referral)))
    [] agent = "sugargoo" ->
         IF ~raw.ok THEN raw
         ELSE NewURL(Site(WWW, agent, <<"/", "#", "/", "home", "/", "productDetail", "?">>)
                \o ParamsToString(SetReferral(
                     << <<<<"productLink">>, SugargooProductLink(raw.href)>> >>,
                     <<"memberId">>, referral)))
    [] agent = "cssbuy" ->
         LET params == SetReferral(<<>>, <<"promotionCode">>, referral) IN
         IF marketplace = "weidian"
         THEN NewURL(WithParams(
                Site(WWW, agent, <<"/", "item", "-", "micro", "-">> \o id \o <<".", "html">>),
                params))
         ELSE IF marketplace = "1688"
         THEN NewURL(WithParams(
                Site(WWW, agent, <<"/", "item", "-", "1688", "-">> \o id \o <<".", "html">>),
                params))
         ELSE NewURL(WithParams(
                Site(WWW, agent, <<"/", "item", "-">> \o id \o <<".", "html">>), params))
    [] agent \in ShopTypeAgents ->
         IF ShopType(marketplace) = Undefined
         THEN Throw(<<"Marketplace could not be detected for CnFans">>)
         ELSE NewURL(WithParams(
                Site(Bare, agent, <<"/", "product", "/">>),
                SetReferral(
                  << <<<<"shop_type">>, ShopType(marketplace)>>, <<<<"id">>, id>> >>,
                  <<"ref">>, referral)))
    [] agent = "ezbuycn" ->
         IF ~raw.ok THEN raw
         ELSE NewURL(Site(Bare, agent, <<"/", "api", "/", "chaid", ".", "aspx", "?">>)
                \o ParamsToString(<< <<<<"key">>, raw.href>> >>))
    [] agent = "hoobuy" ->
         LET params == SetReferral(<<>>, <<"inviteCode">>, referral) IN
         IF HoobuyCode(marketplace) = Undefined
         THEN Throw(<<"Unsupported agent: ", agent>>)
         ELSE NewURL(WithParams(
                Site(WWW, agent, <<"/", "product", "/">> \o HoobuyCode(marketplace)
                                 \o <<"/">> \o id),
                params))
    [] agent = "basetao" ->
         NewURL(Site(WWW, agent,
                  <<"/", "best", "-", "taobao", "-", "agent", "-", "service", "/",
                    "products", "/", "agent", "/">>
                  \o CorrectedMarketplace(marketplace) \o <<"/">> \o id \o <<".", "html">>))
    [] agent = "oopbuy" ->
         NewURL(WithParams(
           Site(WWW, agent, <<"/", "product", "/">>
             \o oopbuyMarketplaceStrings(marketplace) \o <<"/">> \o id),
           SetReferral(<<>>, <<"inviteCode">>, referral)))
    [] agent = "lovegobuy" ->
         NewURL(WithParams(
           Site(WWW, agent, <<"/", "product">>),
           SetReferral(
             << <<<<"id">>, id>>, <<<<"shop_type">>, CorrectedMarketplace(marketplace)>> >>,
             <<"invite_code">>, referral)))
    [] agent = "ponybuy" ->
         NewURL(WithParams(
           Site(WWW, agent, <<"/", "en", "-", "gb", "/", "goods">>),
           ParamsSet(ParamsSet(SetReferral(<<>>, <<"tracking">>, referral),
                               <<"product_id">>, id),
                     <<"platform">>, CorrectedMarketplace(marketplace))))
    [] agent = "panglobalbuy" ->
         IF panglobalbuyMarketplaceStrings(marketplace) = Undefined
         THEN Throw(<<"Unsupported marketplace for PanGlobalBuy">>)
         ELSE NewURL(Site(Bare, agent, <<"/", "#", "/", "details", "?">>)
                \o ParamsToString(SetReferral(
                     << <<<<"type">>, panglobalbuyMarketplaceStrings(marketplace)>>,
                        <<<<"offerId">>, id>> >>,
                     <<"share_id">>, referral)))
    [] agent = "sifubuy" ->
         IF Falsy(sifubuyMarketplaceStrings(marketplace))
         THEN Throw(<<"Unsupported marketplace for SifuBuy">>)
         ELSE NewURL(WithParams(
                Site(WWW, agent, <<"/", "detail">>),
                ParamsSet(ParamsSet(SetReferral(<<>>, <<"invite_code">>, referral),
                                    <<"id">>, id),
                          <<"type">>, sifubuyMarketplaceStrings(marketplace))))
    [] agent = "raw" -> raw
    [] OTHER -> Throw(<<"Unsupported agent: ", agent>>)

(***************************************************************************)
(* Detection and the decoders.                                             *)
(***************************************************************************)
NoAgent == "undefined"

\* the hostname without a leading "www." or "m."
HostDomain(host) ==
  IF Len(host) > 1 /\ host[1] \in {"www.", "m."} THEN Tail(host) ELSE host

detectAgent(u) ==
  LET domain == HostDomain(u.host) IN
  IF \E a \in agents : domain = <<AgentDomain(a)>>
  THEN CHOOSE a \in agents : domain = <<AgentDomain(a)>>
  ELSE IF domain = <<"esugargoo.com">> THEN "sugargoo" ELSE NoAgent

\* the query of a hash-routed link: what follows the "?" inside the hash
HashParams(u) == ParseParams(After(u.hash, {"?"}))

\* a ?? b
Coalesce(a, b) == IF a # Null /\ a # Undefined THEN a ELSE b

\* a named parameter of the search, or else of the hash route
InnerParam(u, name) ==
  Coalesce(ParamsGet(SearchParams(u), name), ParamsGet(HashParams(u), name))

extractInnerParam(u) == InnerParam(u, <<"url">>)

\* the opaque decryption collaborator: a token "PJ<c>" decrypts to the
\* plaintext the book gives for c; an unknown token decrypts to garbage
CipherBook(c) ==
  CASE c = "9emDFVd3v76X25eDSVqIb3" ->
         Scheme \o <<"www.", "taobao.com", "/", "list", "/", "item", "/",
                     "674680652328", ".", "htm">>
    [] OTHER -> <<"<garbage>">>

decryptPandabuy(token) ==
  IF Len(token) = 2 /\ token[1] = "PJ" THEN CipherBook(token[2]) ELSE <<"<garbage>">>

\* digit-only atoms
NumericAtoms ==
  {"0", "1", "2", "3", "1688", "1234567", "1625671124", "6481396504", "675330231400",
   "674680652328", "1730295605736697858"}

IsNumeric(s) == s # <<>> /\ \A i \in 1..Len(s) : s[i] \in NumericAtoms

DecodeFailed(what, u) ==
  Throw(<<"Error extracting inner link, ">> \o what \o <<": ">> \o Href(u))

\* new URL(value), percent-decoding once more when that does not parse
ParseInner(value) ==
  IF ~IsURL(value) /\ Malformed(value) THEN Throw(<<"URI malformed">>)
  ELSE NewURL(IF IsURL(value) THEN value ELSE decodeURIComponent(value))

\* Embedded-URL shape: the raw link is the value of a named parameter
DecodeValue(u, name, value) ==
  IF Falsy(value)
  THEN DecodeFailed(<<"'">> \o name \o <<"' query param not found">>, u)
  ELSE ParseInner(value)

DecodeEmbedded(u, name) == DecodeValue(u, name, InnerParam(u, name))

\* marketplace tag and id taken from parameters or path segments
DecodeTagged(u, marketplace, id) ==
  IF marketplace = "undefined" \/ Falsy(id)
  THEN DecodeFailed(<<"marketplace or id not found">>, u)
  ELSE generateRawLink(marketplace, id)

ShopTypeMarketplace(tag) ==
  CASE tag = <<"taobao">> -> "taobao"
    [] tag = <<"weidian">> -> "weidian"
    [] tag = <<"ali_1688">> -> "1688"
    [] OTHER -> "undefined"

PlainMarketplace(tag) ==
  IF \E m \in marketplaces : tag = <<m>>
  THEN CHOOSE m \in marketplaces : tag = <<m>>
  ELSE "undefined"

HoobuyMarketplace(code) ==
  CASE code = <<"0">> -> "1688"
    [] code = <<"1">> -> "taobao"
    [] code = <<"2">> -> "weidian"
    [] OTHER -> "undefined"

OopbuyMarketplace(tag) ==
  CASE tag = <<"weidian">> -> "weidian"
    [] tag = <<"1">> -> "taobao"
    [] tag = <<"0">> -> "1688"
    [] OTHER -> "undefined"

PanglobalbuyMarketplace(tag) ==
  CASE tag = <<"1">> -> "taobao"
    [] tag = <<"2">> -> "1688"
    [] tag = <<"3">> -> "weidian"
    [] OTHER -> "undefined"

SifubuyMarketplace(tag) ==
  CASE tag = <<"1">> -> "weidian"
    [] tag = <<"2">> -> "taobao"
    [] tag = <<"3">> -> "1688"
    [] OTHER -> "undefined"

\* pathname.split('/'): the k-th segment counted from the end ("" when missing)
Segments(u) == Split(u.pathname, "/")
FromEnd(segs, k) == IF Len(segs) > k THEN segs[Len(segs) - k] ELSE <<>>
SegmentFromEnd(u, k) == FromEnd(Segments(u), k)
Among(segs, seg) == \E i \in 1..Len(segs) : segs[i] = seg
HasSegment(u, seg) == Among(Segments(u), seg)

\* reading .split of undefined
TypeError == Throw(<<"Cannot read properties of undefined (reading 'split')">>)

\* parts[k].split('.')[0], parts being pathname.split('-')
Piece(parts, k) == Before(parts[k + 1], {"."})

DecryptPath(pathname, parts) ==
  IF StartsWith(pathname, <<"/", "item", "-", "micro">>) /\ Len(parts) < 3
  THEN TypeError
  ELSE IF StartsWith(pathname, <<"/", "item", "-", "micro">>) /\ Piece(parts, 2) # <<>>
  THEN generateRawLink("weidian", Piece(parts, 2))
  ELSE IF StartsWith(pathname, <<"/", "item", "-", "1688">>) /\ Len(parts) < 3
  THEN TypeError
  ELSE IF StartsWith(pathname, <<"/", "item", "-", "1688">>) /\ Piece(parts, 2) # <<>>
  THEN generateRawLink("1688", Piece(parts, 2))
  ELSE IF StartsWith(pathname, <<"/", "item">>) /\ Len(parts) < 2
  THEN TypeError
  ELSE IF StartsWith(pathname, <<"/", "item">>) /\ Piece(parts, 1) # <<>>
  THEN generateRawLink("taobao", Piece(parts, 1))
  ELSE Return(Undefined)

decryptCssbuy(u) == DecryptPath(u.pathname, Split(u.pathname, "-"))

\* the decrypted link, or an Error when there is none
OrDecodeFailed(u, decrypted) ==
  IF decrypted.ok /\ decrypted.href = Undefined
  THEN DecodeFailed(<<"cssbuy link could not be decrypted">>, u)
  ELSE decrypted

decodeCssbuy(u) == OrDecodeFailed(u, decryptCssbuy(u))

decodeSugargoo(u) == DecodeEmbedded(u, <<"productLink">>)
decodeSuperbuy(u) == DecodeEmbedded(u, <<"url">>)
decodeHubbuyCn(u) == DecodeEmbedded(u, <<"url">>)
decodeEzbuyCn(u) == DecodeEmbedded(u, <<"key">>)
decodeAcbuy(u) == DecodeEmbedded(u, <<"url">>)

\* cnfans, mulebuy, joyabuy, orientdig
decodeCnFans(u) ==
  DecodeTagged(u, ShopTypeMarketplace(InnerParam(u, <<"shop_type">>)), InnerParam(u, <<"id">>))

\* Path-segment shape: .../<marker>/<tag>/<id>
DecodePath(u, segs, marker, marketplace) ==
  IF ~Among(segs, marker)
  THEN DecodeFailed(marker \o <<" path not found">>, u)
  ELSE DecodeTagged(u, marketplace, Before(FromEnd(segs, 0), {"."}))

decodeHoobuy(u) ==
  DecodePath(u, Segments(u), <<"product">>, HoobuyMarketplace(SegmentFromEnd(u, 1)))

decodeBasetao(u) ==
  DecodePath(u, Segments(u), <<"agent">>, PlainMarketplace(SegmentFromEnd(u, 1)))

PurchaseHistory ==
  <<"Kameymall link is a purchase history link. This type of link cannot be decoded.">>

\* pathname.split('/')[2] is purely numeric
IsPurchaseHistory(segs) == Len(segs) >= 3 /\ IsNumeric(segs[3])

decodeKameymall(u) ==
  IF IsPurchaseHistory(Segments(u))
  THEN Throw(PurchaseHistory)
  ELSE DecodeEmbedded(u, <<"url">>)

decodeOopbuy(u) ==
  DecodePath(u, Segments(u), <<"product">>, OopbuyMarketplace(SegmentFromEnd(u, 1)))

decodeLovegobuy(u) ==
  DecodeTagged(u, PlainMarketplace(InnerParam(u, <<"shop_type">>)), InnerParam(u, <<"id">>))

decodePonybuy(u) ==
  DecodeTagged(u, PlainMarketplace(InnerParam(u, <<"platform">>)),
               InnerParam(u, <<"product_id">>))

decodePanglobalbuy(u) ==
  DecodeTagged(u, PanglobalbuyMarketplace(InnerParam(u, <<"type">>)),
               InnerParam(u, <<"offerId">>))

decodeSifubuy(u) ==
  DecodeTagged(u, SifubuyMarketplace(InnerParam(u, <<"type">>)), InnerParam(u, <<"id">>))

(***************************************************************************)
(* extractRawLink                                                          *)
(***************************************************************************)
BespokeAgents ==
  {"cssbuy", "sugargoo", "superbuy", "cnfans", "mulebuy", "joyabuy", "orientdig",
   "hoobuy", "basetao", "hubbuycn", "kameymall", "oopbuy", "lovegobuy", "ponybuy",
   "panglobalbuy", "ezbuycn", "sifubuy", "acbuy"}

\* throw new Error('Agent does not have a decoder. This may be expected.')
NoDecoderReturnsNothing == Return(Undefined)
NoDecoder == Throw(<<"Agent does not have a decoder. This may be expected.">>)

\* the try block: the decoder of the detected agent, or a thrown Error
Bespoke(u, agent) ==
  CASE agent = NoAgent -> Throw(<<"Agent not detected.">>)
    [] agent = "cssbuy" -> decodeCssbuy(u)
    [] agent = "sugargoo" -> decodeSugargoo(u)
    [] agent = "superbuy" -> decodeSuperbuy(u)
    [] agent \in {"cnfans", "mulebuy", "joyabuy", "orientdig"} -> decodeCnFans(u)
    [] agent = "hoobuy" -> decodeHoobuy(u)
    [] agent = "basetao" -> decodeBasetao(u)
    [] agent = "hubbuycn" -> decodeHubbuyCn(u)
    [] agent = "kameymall" -> decodeKameymall(u)
    [] agent = "oopbuy" -> decodeOopbuy(u)
    [] agent = "lovegobuy" -> decodeLovegobuy(u)
    [] agent = "ponybuy" -> decodePonybuy(u)
    [] agent = "panglobalbuy" -> decodePanglobalbuy(u)
    [] agent = "ezbuycn" -> decodeEzbuyCn(u)
    [] agent = "sifubuy" -> decodeSifubuy(u)
    [] agent = "acbuy" -> decodeAcbuy(u)
    [] OTHER -> NoDecoder

\* is the error of the try block caught by the catch block: catch (error)
\* catches whatever was thrown
CaughtNever(error) == FALSE
Caught(error) == TRUE

\* agent === 'pandabuy' && innerParam.startsWith('PJ')
IsCipherTokenOfAnyAgent(agent, innerParam) == StartsWith(innerParam, <<"PJ">>)
IsCipherToken(agent, innerParam) ==
  agent = "pandabuy" /\ StartsWith(innerParam, <<"PJ">>)

\* the catch block: the general fallback; `error` is what the try block
\* threw and innerParam is extractInnerParam(link)
Fallback(u, agent, error, innerParam) ==
  IF Falsy(innerParam)
  THEN [res |-> Throw(<<"Error extracting inner link. Fallback unsuccessful. Error: (">>
                      \o error.message \o <<") - ">> \o Href(u)),
        steps |-> <<"extractInnerParam">>]
  ELSE IF IsCipherToken(agent, innerParam)
  THEN [res |-> NewURL(decryptPandabuy(innerParam)),
        steps |-> <<"extractInnerParam", "decryptPandabuy", "new URL">>]
  ELSE [res |-> ParseInner(innerParam),
        steps |-> IF IsURL(innerParam)
                  THEN <<"extractInnerParam", "new URL">>
                  ELSE <<"extractInnerParam", "new URL", "decodeURIComponent", "new URL">>]

\* steps a, then the steps of run b
After2(a, b) == [res |-> b.res, steps |-> a \o b.steps]

\* try { ... } catch (error) { ... }: `tried` is the outcome of the try block
TryCatch(u, agent, tried) ==
  IF tried.ok \/ ~Caught(tried)
  THEN [res |-> tried, steps |-> IF agent \in BespokeAgents THEN <<"bespoke">> ELSE <<>>]
  ELSE After2(IF agent \in BespokeAgents THEN <<"bespoke">> ELSE <<>>,
              Fallback(u, agent, tried, extractInnerParam(u)))

\* extractRawLink of a link whose agent is detected as `agent`
ExtractFor(u, agent) == TryCatch(u, agent, Bespoke(u, agent))

\* extractRawLink with the strategies it ran, in order
extractRawLinkRun(u) == ExtractFor(u, detectAgent(u))

extractRawLink(u) == extractRawLinkRun(u).res

(***************************************************************************)
(* CnStoreLink                                                             *)
(***************************************************************************)
NoMarketplace == "undefined"

detectMarketplace(u) ==
  LET domain == HostDomain(u.host) IN
  CASE domain = <<"weidian.com">> -> "weidian"
    [] domain \in {<<"item.taobao.com">>, <<"taobao.com">>} -> "taobao"
    [] domain = <<"detail.1688.com">> -> "1688"
    [] domain = <<"detail.tmall.com">> -> "tmall"
    [] OTHER -> NoMarketplace

\* the id text of a raw link of a marketplace, null when there is none
IdText(u, marketplace) ==
  CASE marketplace = "weidian" -> ParamsGet(SearchParams(u), <<"itemID">>)
    [] marketplace \in {"taobao", "tmall"} ->
         Coalesce(ParamsGet(SearchParams(u), <<"id">>),
                  IF HasSegment(u, <<"item">>)
                  THEN Before(SegmentFromEnd(u, 0), {"."}) ELSE Null)
    [] marketplace = "1688" ->
         IF HasSegment(u, <<"offer">>) THEN Before(SegmentFromEnd(u, 0), {"."}) ELSE Null
    [] OTHER -> Null

IdOrThrow(u, found) ==
  IF Falsy(found)
  THEN [ok |-> FALSE, id |-> Empty,
        message |-> <<"Id could not be extracted from link: ">> \o Href(u)]
  ELSE [ok |-> TRUE, id |-> found, message |-> <<>>]

\* the id of a raw link: [ok, id, message]
extractId(u) == IdOrThrow(u, IdText(u, detectMarketplace(u)))

\* a link of a marketplace from which an id can be read
isRawLinkAnywhere(u) ==
  \/ detectMarketplace(u) # NoMarketplace /\ extractId(u).ok
  \/ IsURL(ParamsGet(SearchParams(u), <<"url">>))
isRawLink(u) == detectMarketplace(u) # NoMarketplace /\ extractId(u).ok

isAgentLink(u) == detectAgent(u) # NoAgent

NoObject == [marketplace |-> NoMarketplace, id |-> Empty, referrals |-> <<>>]

\* throw new Error(`CnLink object could not be initialized. Neither ...`)
NeitherDetected(u) ==
  Throw(<<"CnLink object could not be initialized. ",
          "Neither agent nor raw link could be detected from: ">> \o Href(u))

\* getRawLink() of the constructor, with the checks and the decoding it ran
getRawLinkDecodingOnly(u) ==
  IF isAgentLink(u)
  THEN After2(<<"isAgentLink", "extractRawLink">>, extractRawLinkRun(u))
  ELSE [res |-> NeitherDetected(u), steps |-> <<"isAgentLink">>]
getRawLinkRun(u) ==
  IF isRawLink(u) THEN [res |-> Return(Href(u)), steps |-> <<"isRawLink">>]
  ELSE IF isAgentLink(u)
  THEN After2(<<"isRawLink", "isAgentLink", "extractRawLink">>, extractRawLinkRun(u))
  ELSE [res |-> NeitherDetected(u), steps |-> <<"isRawLink", "isAgentLink">>]

getRawLink(u) == getRawLinkRun(u).res

\* this.marketplace = marketplace; this.id = extractId(innerLink); ...
Construct(marketplace, id, refs) ==
  IF ~id.ok THEN [res |-> Throw(id.message), object |-> NoObject]
  ELSE [res |-> Return(Empty),
        object |-> [marketplace |-> marketplace, id |-> id.id, referrals |-> refs]]

\* the constructor once getRawLink() returned `inner`
ConstructFrom(inner, marketplace, refs) ==
  IF marketplace = NoMarketplace
  THEN [res |-> Throw(<<"CnLink object could not be initialized. ",
                        "Marketplace could not be detected from inner link: ">>
                      \o Href(inner)),
        object |-> NoObject]
  ELSE Construct(marketplace, extractId(inner), refs)

ConstructInner(inner, refs) == ConstructFrom(inner, detectMarketplace(inner), refs)

\* the constructor, innerLink being the outcome of getRawLink()
ConstructWith(innerLink, refs) ==
  IF ~innerLink.ok THEN [res |-> innerLink, object |-> NoObject]
  ELSE ConstructInner(ParseURL(innerLink.href), refs)

\* new CnStoreLink(href, referrals): [res, object]
CnStoreLink(u, refs) == ConstructWith(getRawLink(u), refs)

\* this.referrals[target]
Lookup(refs, target) ==
  IF \E i \in 1..Len(refs) : refs[i][1] = target
  THEN refs[CHOOSE i \in 1..Len(refs) : refs[i][1] = target][2]
  ELSE Undefined

\* getRefferal() of as(target, referral, ra)
getRefferalOfAnyAgent(this, target, referral) ==
  IF ~Falsy(referral) THEN referral
  ELSE IF target = "raw" THEN Undefined
  ELSE IF this.referrals = <<>> THEN Undefined ELSE this.referrals[1][2]
getRefferal(this, target, referral) ==
  IF ~Falsy(referral) THEN referral
  ELSE IF target = "raw" THEN Undefined
  ELSE Lookup(this.referrals, target)

\* as(target, referral, ra): [res, passed], passed being the referral handed
\* to generateAgentLink
AsWith(this, target, passed, ra) ==
  [res |-> generateAgentLink(target, this.marketplace, this.id, passed, ra),
   passed |-> passed]

as(this, target, referral, ra) ==
  AsWith(this, target, getRefferal(this, target, referral), ra)

\* serialize(): { marketplace: this.marketplace, id: this.id }
serializeAliased(this) ==
  [marketplace |-> IF this.marketplace = "tmall" THEN "taobao" ELSE this.marketplace,
   id |-> this.id]
serialize(this) == [marketplace |-> this.marketplace, id |-> this.id]

\* new CnStoreLink(rawUrl), rawUrl being the outcome of generateRawLink
DeserializeFrom(rawUrl) ==
  IF ~rawUrl.ok THEN [res |-> rawUrl, object |-> NoObject]
  ELSE CnStoreLink(ParseURL(rawUrl.href), <<>>)

\* CnStoreLink.deserialize({ marketplace, id })
deserialize(serial) == DeserializeFrom(generateRawLink(serial.marketplace, serial.id))

\* e instanceof Error ? e.message : ''
ErrorMessageDropped(e) == Empty
ErrorMessage(e) == e.message

NoResult == [success |-> FALSE, error |-> Undefined]

\* try { ... return { success: true, data: c } } catch (e) { ... }
SafeResult(new) ==
  IF new.res.ok
  THEN [result |-> [success |-> TRUE, error |-> Undefined], data |-> new.object]
  ELSE [result |-> [success |-> FALSE, error |-> ErrorMessage(new.res)],
        data |-> NoObject]

\* CnStoreLink.safeInstantiate(href, referrals)
safeInstantiate(u, refs) == SafeResult(CnStoreLink(u, refs))

(***************************************************************************)
(* Inputs.                                                                 *)
(***************************************************************************)
IdPool == << <<"6481396504">>, <<"1625671124">>, <<"1688", "12345678">>, <<"675330231400">>, <<"674680652328">> >>
Ids == {IdPool[i] : i \in 1..NumIds}

ReferralPool ==
  << <<"myC0d3">>, <<"a", "&", "b", "=", "c">>, <<"x", "/", "y">>, <<"50", "%", "off">> >>
\* a referral code, the empty string, or none given
Referrals == {ReferralPool[i] : i \in 1..NumReferrals} \cup {Empty, Undefined}

TrackingPool == << <<"3">>, <<"500">>, <<"a", "&", "b">> >>
TrackingTags == {TrackingPool[i] : i \in 1..NumTrackingTags} \cup {Undefined}

AgentsWithRaw == agents \cup {"raw"}
MarketplaceInputs == marketplaces \cup {OtherMarketplace}

RawLinks == {generateRawLink(m, i).href : m \in marketplaces, i \in Ids}

\* the raw links that the input links embed: one with its id in the query,
\* one with its id in the path
EmbeddedLinks == {generateRawLink(m, i).href : m \in {"weidian", "1688"}, i \in Ids}

\* a link that is neither a raw link nor an agent link
OtherLink == Scheme \o <<"www.", "example.com", "/">>

InputHosts ==
  {<<"www.", AgentDomain(a)>> : a \in agents}
  \cup {<<"m.", "pandabuy.com">>, <<"hoobuy.com">>, <<"www.", "esugargoo.com">>,
        <<"www.", "example.com">>}
  \cup {<<"item.taobao.com">>, <<"weidian.com">>}

InputPaths ==
  {<<"/">>,
   <<"/", "item">>,
   <<"/", "item", "-", "micro">>,
   <<"/", "item", "-", "1688">>,
   <<"/", "item", "s", "/", "x">>,
   <<"/", "purchases", "/", "1730295605736697858", "/", "x">>,
   <<"/", "purchases", "/", "search", "/", "item">>,
   <<"/", "item", "-", "micro", "-">> \o IdPool[1] \o <<".", "html">>,
   <<"/", "m", "/", "product", "/", "2", "/">> \o IdPool[1],
   <<"/", "m", "/", "product", "/", "1", "/">> \o IdPool[1],
   <<"/", "m", "/", "product", "/", "0", "/">> \o IdPool[1]}

InputSearches ==
  {<<>>,
   <<"url", "=", "PJ", "9emDFVd3v76X25eDSVqIb3">>,
   <<"url", "=", "PJ", "unknown">>,
   <<"url", "=", "junk">>,
   <<"url", "=">> \o encodeURIComponent(OtherLink),
   <<"url", "=", "%", "zz">>,
   <<"id", "=">> \o IdPool[1] \o <<"&", "shop_type", "=", "weidian">>,
   <<"itemID", "=">> \o IdPool[1]}
  \cup {<<"url", "=">> \o encodeURIComponent(r) : r \in EmbeddedLinks}
  \cup {<<"url", "=">> \o encodeURIComponent(encodeURIComponent(r)) : r \in EmbeddedLinks}
  \cup {<<"ra", "=", "1", "&", "url", "=">> \o r : r \in EmbeddedLinks}

\* hash-routed links
InputHashLinks ==
  {[host |-> <<"www.", h>>, pathname |-> <<"/">>, search |-> <<>>,
    hash |-> <<"/", "home", "/", "productDetail", "?", n, "=">> \o v] :
     h \in {"sugargoo.com", "esugargoo.com", "superbuy.com", "wegobuy.com"},
     n \in {"productLink", "url"},
     v \in {encodeURIComponent(r) : r \in EmbeddedLinks}
           \cup {encodeURIComponent(encodeURIComponent(r)) : r \in EmbeddedLinks}}

InputLinks ==
  {[host |-> h, pathname |-> p, search |-> q, hash |-> <<>>] :
     h \in InputHosts, p \in InputPaths, q \in InputSearches}
  \cup InputHashLinks

\* the links of the objects whose methods are called: the raw links of every
\* marketplace and the hash-routed agent links
ObjectLinks == {ParseURL(r) : r \in RawLinks} \cup InputHashLinks

\* the referrals object of a CnStoreLink: a list of <<agent, code>> pairs
ReferralMaps == {<<>>, << <<"pandabuy", ReferralPool[1]>> >>}

(***************************************************************************)
(* The calls of the library as a state machine.  The initial state holds   *)
(* the call to make and its arguments; each action is one call and leaves  *)
(* its result and the strategies it ran.  The calls keep no state between  *)
(* them.  RoundTrip is the second call of the round-trip test: it decodes  *)
(* the link that generateAgentLink returned.                               *)
(***************************************************************************)
VARIABLES call, op, args, link, referrals, out, steps, object, safe, passed

vars == <<call, op, args, link, referrals, out, steps, object, safe, passed>>

NoArgs ==
  [agent |-> "raw", marketplace |-> "taobao", id |-> Empty,
   referral |-> Undefined, ra |-> Undefined]

NoLink == [host |-> <<>>, pathname |-> <<>>, search |-> <<>>, hash |-> <<>>]

GenerateArgs ==
  [agent : AgentsWithRaw, marketplace : MarketplaceInputs, id : Ids,
   referral : Referrals, ra : TrackingTags]

Init ==
  /\ op = "none"
  /\ out = Return(Empty)
  /\ steps = <<>>
  /\ object = NoObject
  /\ safe = NoResult
  /\ passed = Undefined
  /\ \/ call = "generateAgentLink" /\ args \in GenerateArgs
        /\ link = NoLink /\ referrals = <<>>
     \/ call = "extractRawLink" /\ args = NoArgs
        /\ link \in InputLinks /\ referrals = <<>>
     \/ call \in {"CnStoreLink", "safeInstantiate"} /\ args = NoArgs
        /\ link \in InputLinks /\ referrals \in ReferralMaps
     \/ call \in {"as", "deserialize"} /\ args = NoArgs
        /\ link \in ObjectLinks /\ referrals \in ReferralMaps

\* generateAgentLink(agent, marketplace, id, referral, ra)
GenerateAgentLink ==
  /\ call = "generateAgentLink" /\ op = "none"
  /\ op' = "generateAgentLink"
  /\ out' = generateAgentLink(args.agent, args.marketplace, args.id,
                              args.referral, args.ra)
  /\ UNCHANGED <<call, args, link, referrals, steps, object, safe, passed>>

\* extractRawLink(agentLink) of the link generateAgentLink just returned
RoundTrip ==
  /\ op = "generateAgentLink"
  /\ out.ok
  /\ op' = "roundTrip"
  /\ link' = ParseURL(out.href)
  /\ \E run \in {extractRawLinkRun(ParseURL(out.href))} :
       out' = run.res /\ steps' = run.steps
  /\ UNCHANGED <<call, args, referrals, object, safe, passed>>

\* extractRawLink(href) of any link
ExtractRawLink ==
  /\ call = "extractRawLink" /\ op = "none"
  /\ op' = "extractRawLink"
  /\ \E run \in {extractRawLinkRun(link)} :
       out' = run.res /\ steps' = run.steps
  /\ UNCHANGED <<call, args, link, referrals, object, safe, passed>>

\* new CnStoreLink(href, referrals)
NewCnStoreLink ==
  /\ call \in {"CnStoreLink", "as", "deserialize"} /\ op = "none"
  /\ op' = "CnStoreLink"
  /\ \E new \in {CnStoreLink(link, referrals)} :
       out' = new.res /\ object' = new.object
  /\ steps' = getRawLinkRun(link).steps
  /\ UNCHANGED <<call, args, link, referrals, safe, passed>>

\* CnStoreLink.safeInstantiate(href, referrals)
SafeInstantiate ==
  /\ call = "safeInstantiate" /\ op = "none"
  /\ op' = "safeInstantiate"
  /\ \E r \in {safeInstantiate(link, referrals)} :
       safe' = r.result /\ object' = r.data
  /\ out' = Return(Empty)
  /\ UNCHANGED <<call, args, link, referrals, steps, passed>>

\* x.as(target, referral, ra) on the object just constructed
As ==
  /\ call = "as" /\ op = "CnStoreLink"
  /\ out.ok
  /\ op' = "as"
  /\ \E target \in AgentsWithRaw, referral \in Referrals, ra \in TrackingTags :
       /\ args' = [agent |-> target, marketplace |-> object.marketplace,
                   id |-> object.id, referral |-> referral, ra |-> ra]
       /\ \E r \in {as(object, target, referral, ra)} :
            out' = r.res /\ passed' = r.passed
  /\ UNCHANGED <<call, link, referrals, steps, object, safe>>

\* CnStoreLink.deserialize(x.serialize()) of the object x just constructed;
\* args keeps the marketplace and the id of x
Deserialize ==
  /\ call = "deserialize" /\ op = "CnStoreLink"
  /\ out.ok
  /\ op' = "deserialize"
  /\ args' = [NoArgs EXCEPT !.marketplace = object.marketplace, !.id = object.id]
  /\ \E new \in {deserialize(serialize(object))} :
       out' = new.res /\ object' = new.object
  /\ UNCHANGED <<call, link, referrals, steps, safe, passed>>

Next ==
  \/ GenerateAgentLink
  \/ RoundTrip
  \/ ExtractRawLink
  \/ NewCnStoreLink
  \/ SafeInstantiate
  \/ As
  \/ Deserialize

Spec == Init /\ [][Next]_vars

(***************************************************************************)
(* Properties.                                                             *)
(***************************************************************************)
DecodeOps == {"extractRawLink", "roundTrip"}

Range(seq) == {seq[i] : i \in 1..Len(seq)}

\* the `url` parameter of the search of the link
UrlParam == ParamsGet(SearchParams(link), <<"url">>)

\* the parameters a link carries, in its search or after its hash route
LinkParams(u) == SearchParams(u) \o HashParams(u)

\* failures that say the marketplace is not supported
IsUnsupportedMarketplaceFailure(res) ==
  /\ ~res.ok
  /\ res.message[1] \in {"Marketplace could not be detected for CnFans",
                         "Unsupported marketplace for PanGlobalBuy",
                         "Unsupported marketplace for SifuBuy",
                         "Unsupported marketplace: "}

\* C1: for every agent of the agents list, every marketplace of the
\* marketplaces list and every id, generateAgentLink returns a link and
\* extractRawLink of that link returns the raw link of (marketplace, id), or,
\* for tmall only, the taobao raw link of the same id.
C1_RoundTrip ==
  /\ (op = "generateAgentLink" /\ args.agent \in agents
        /\ args.marketplace \in marketplaces) => out.ok
  /\ (op = "roundTrip" /\ args.agent \in agents /\ args.marketplace \in marketplaces) =>
       /\ out.ok
       /\ \/ out.href = generateRawLink(args.marketplace, args.id).href
          \/ /\ args.marketplace = "tmall"
             /\ out.href = generateRawLink("taobao", args.id).href

\* C2: the bespoke decoder of the detected agent runs first and the `url`
\* fallback second.  When the decoder succeeds its result is returned and the
\* fallback is not consulted; when it fails, other than for a purchase-history
\* link, and the link carries a parseable `url` parameter, that embedded URL
\* is returned.
C2_StrategyOrder ==
  (op \in DecodeOps /\ detectAgent(link) \in BespokeAgents) =>
    /\ Bespoke(link, detectAgent(link)).ok =>
         out = Bespoke(link, detectAgent(link)) /\ steps = <<"bespoke">>
    /\ ~Bespoke(link, detectAgent(link)).ok =>
         /\ Len(steps) >= 2 /\ steps[1] = "bespoke" /\ steps[2] = "extractInnerParam"
         /\ "bespoke" \notin Range(Tail(steps))
    /\ (/\ ~Bespoke(link, detectAgent(link)).ok
        /\ Bespoke(link, detectAgent(link)).message # PurchaseHistory
        /\ ~Falsy(UrlParam)
        /\ ParseInner(UrlParam).ok) =>
         out.ok /\ out.href = ParseInner(UrlParam).href

\* a decoder failed and the fallback returned the embedded raw link
C2_Witness ==
  /\ op = "extractRawLink"
  /\ detectAgent(link) = "cssbuy"
  /\ ~Bespoke(link, "cssbuy").ok
  /\ steps = <<"bespoke", "extractInnerParam", "new URL">>
  /\ out.ok /\ out.href \in EmbeddedLinks

\* C3: a kameymall link whose second path segment is purely numeric makes
\* extractRawLink fail with the purchase-history error; it never returns a
\* raw link, also when the link carries a `url` parameter.
C3_PurchaseHistoryFails ==
  (op = "extractRawLink" /\ detectAgent(link) = "kameymall"
     /\ IsPurchaseHistory(Segments(link))) =>
    ~out.ok /\ Includes(out.message, PurchaseHistory)

\* C4: a link whose agent is not detected or has no bespoke decoder, and whose
\* `url` parameter holds a raw link, decodes to exactly that raw link.
C4_FallbackDecoding ==
  (op = "extractRawLink" /\ detectAgent(link) \notin BespokeAgents
     /\ UrlParam \in EmbeddedLinks) =>
    out.ok /\ out.href = UrlParam

C4_Witness ==
  /\ op = "extractRawLink"
  /\ detectAgent(link) = "allchinabuy"
  /\ UrlParam \in EmbeddedLinks
  /\ steps = <<"extractInnerParam", "new URL">>
  /\ out.ok /\ out.href = UrlParam

\* the agents generateAgentLink has a rule for
EncodedAgents == agents \ {"acbuy"}

\* the marketplaces in the table or the branch list of an agent; an agent
\* whose last branch takes every marketplace supports every marketplace
Supports(agent, marketplace) ==
  CASE agent = "oopbuy" -> marketplace \in {"weidian", "taobao", "tmall", "1688"}
    [] agent = "panglobalbuy" -> marketplace \in {"weidian", "taobao", "tmall", "1688"}
    [] agent = "sifubuy" -> marketplace \in {"weidian", "taobao", "tmall", "1688"}
    [] agent = "hoobuy" -> marketplace \in {"weidian", "taobao", "tmall", "1688"}
    [] agent \in ShopTypeAgents -> marketplace \in {"weidian", "taobao", "tmall", "1688"}
    [] agent \in {"cssbuy", "basetao", "lovegobuy", "ponybuy"} -> TRUE
    [] OTHER -> marketplace \in marketplaces

\* C5: for an (agent, marketplace) pair the agent does not support,
\* generateAgentLink fails with the unsupported-marketplace failure and
\* returns no URL.
C5_MarketplaceGating ==
  (op = "generateAgentLink" /\ args.agent \in EncodedAgents
     /\ ~Supports(args.agent, args.marketplace)) =>
    IsUnsupportedMarketplaceFailure(out)

\* the referral parameter of an agent
ReferralParamOf(agent) ==
  CASE agent \in {"pandabuy", "hoobuy", "oopbuy"} -> <<"inviteCode">>
    [] agent \in {"wegobuy", "superbuy", "allchinabuy"} -> <<"partnercode">>
    [] agent = "sugargoo" -> <<"memberId">>
    [] agent = "cssbuy" -> <<"promotionCode">>
    [] agent \in {"hagobuy", "hegobuy"} -> <<"affcode">>
    [] agent = "kameymall" -> <<"code">>
    [] agent \in {"cnfans", "mulebuy", "joyabuy", "orientdig"} -> <<"ref">>
    [] agent \in {"eastmallbuy", "hubbuycn"} -> <<"inviter">>
    [] agent \in {"lovegobuy", "sifubuy"} -> <<"invite_code">>
    [] agent = "blikbuy" -> <<"icode">>
    [] agent = "ponybuy" -> <<"tracking">>
    [] agent = "panglobalbuy" -> <<"share_id">>
    [] agent = "loongbuy" -> <<"invitecode">>

ReferralAgents == EncodedAgents \ {"ezbuycn", "basetao"}

C7_EncodingTotal ==
  (op = "generateAgentLink" /\ args.agent \in agents
     /\ args.marketplace \in marketplaces) =>
    out.ok \/ IsUnsupportedMarketplaceFailure(out)

\* C8: a link with no detected agent and no `url` parameter fails with the
\* message "Error extracting inner link, 'url' query param not found: <href>".
C8_RawLinkNotFound ==
  (op = "extractRawLink" /\ detectAgent(link) = NoAgent
     /\ Falsy(InnerParam(link, <<"url">>))) =>
    /\ ~out.ok
    /\ out.message =
         <<"Error extracting inner link, ", "'", "url", "' query param not found", ": ">>
         \o Href(link)

\* C9: every failure of extractRawLink and of the CnStoreLink constructor
\* carries the href of the offending URL (the link given, or for the
\* constructor the inner link) in its message.
C9_FailuresCarryHref ==
  (op \in {"extractRawLink", "CnStoreLink"} /\ ~out.ok) =>
    \/ Includes(out.message, Href(link))
    \/ /\ op = "CnStoreLink"
       /\ getRawLink(link).ok
       /\ Includes(out.message, getRawLink(link).href)

\* C10: the `url` token goes to decryptPandabuy exactly when the agent is
\* pandabuy and the token starts with "PJ", and the result is then the URL
\* parsed from the plaintext; any other token that the fallback reads is
\* parsed directly, percent-decoded once more only when that fails, and is
\* never decrypted.
C10_CipherRouting ==
  op \in DecodeOps =>
    /\ "decryptPandabuy" \in Range(steps)
         <=> (detectAgent(link) = "pandabuy"
                /\ StartsWith(extractInnerParam(link), <<"PJ">>))
    /\ "decryptPandabuy" \in Range(steps) =>
         out = NewURL(decryptPandabuy(extractInnerParam(link)))
    /\ ("decryptPandabuy" \notin Range(steps) /\ "new URL" \in Range(steps)
          /\ "extractInnerParam" \in Range(steps)) =>
         /\ out = ParseInner(extractInnerParam(link))
         /\ "decodeURIComponent" \in Range(steps) <=> ~IsURL(extractInnerParam(link))

C10_Witness ==
  /\ op = "extractRawLink"
  /\ detectAgent(link) = "pandabuy"
  /\ UrlParam = <<"PJ", "9emDFVd3v76X25eDSVqIb3">>
  /\ steps = <<"extractInnerParam", "decryptPandabuy", "new URL">>
  /\ out.ok
  /\ out.href = CipherBook("9emDFVd3v76X25eDSVqIb3")

\* the parameter under which an agent embeds the raw link
EmbeddingParam(agent) ==
  CASE agent = "sugargoo" -> <<"productLink">>
    [] agent = "ezbuycn" -> <<"key">>
    [] OTHER -> <<"url">>

EmbeddingAgents == UrlAgents \cup {"pandabuy", "sugargoo", "ezbuycn"}

\* the embedded link of the generated link, percent-decoded once by the
\* parameter parser
EmbeddedOnce == ParamsGet(LinkParams(ParseURL(out.href)), EmbeddingParam(args.agent))

\* C11: the sugargoo link carries the raw link in productLink percent-encoded
\* twice; extractRawLink of a sugargoo or esugargoo link returns the same raw
\* link for productLink encoded once and encoded twice; every other agent
\* that embeds the raw link encodes it exactly once.
C11_DoubleEncoding ==
  /\ (op = "generateAgentLink" /\ args.agent \in EmbeddingAgents
        /\ args.marketplace \in marketplaces) =>
       /\ out.ok
       /\ IF args.agent = "sugargoo"
          THEN /\ EmbeddedOnce = encodeURIComponent(generateRawLink(args.marketplace, args.id).href)
               /\ EmbeddedOnce # generateRawLink(args.marketplace, args.id).href
               /\ decodeURIComponent(EmbeddedOnce) = generateRawLink(args.marketplace, args.id).href
          ELSE EmbeddedOnce = generateRawLink(args.marketplace, args.id).href
  /\ (op = "extractRawLink" /\ detectAgent(link) = "sugargoo") =>
       \A r \in EmbeddedLinks :
         InnerParam(link, <<"productLink">>) \in {r, encodeURIComponent(r)} =>
           out.ok /\ out.href = r

\* a sugargoo link with productLink encoded twice decodes to the raw link
C11_Witness ==
  /\ op = "extractRawLink"
  /\ link.host = <<"www.", "esugargoo.com">>
  /\ InnerParam(link, <<"productLink">>) \in {encodeURIComponent(r) : r \in EmbeddedLinks}
  /\ "bespoke" \in Range(steps)
  /\ out.ok /\ out.href \in EmbeddedLinks

\* C12: the constructor uses a raw link directly, without decoding; it
\* decodes an agent link with extractRawLink; it fails for any other link.
\* The object holds detectMarketplace and extractId of the inner raw link, and
\* no object exists when no marketplace is detected on the inner link.
C12_Construction ==
  op = "CnStoreLink" =>
    /\ isRawLink(link) =>
         /\ steps = <<"isRawLink">>
         /\ out.ok
         /\ object.marketplace = detectMarketplace(link)
         /\ object.id = extractId(link).id
    /\ (~isRawLink(link) /\ isAgentLink(link)) =>
         /\ SubSeq(steps, 1, 3) = <<"isRawLink", "isAgentLink", "extractRawLink">>
         /\ SubSeq(steps, 4, Len(steps)) = extractRawLinkRun(link).steps
         /\ ~extractRawLink(link).ok => out = extractRawLink(link) /\ object = NoObject
         /\ out.ok =>
              /\ extractRawLink(link).ok
              /\ object.marketplace = detectMarketplace(ParseURL(extractRawLink(link).href))
              /\ object.id = extractId(ParseURL(extractRawLink(link).href)).id
         /\ (/\ extractRawLink(link).ok
             /\ detectMarketplace(ParseURL(extractRawLink(link).href)) = NoMarketplace) =>
              ~out.ok /\ object = NoObject
    /\ (~isRawLink(link) /\ ~isAgentLink(link)) =>
         ~out.ok /\ object = NoObject /\ "extractRawLink" \notin Range(steps)
    /\ out.ok => object.referrals = referrals /\ object.marketplace \in marketplaces
    /\ ~out.ok => object = NoObject

\* an agent link decoded into an object
C12_Witness ==
  /\ op = "CnStoreLink"
  /\ detectAgent(link) = "superbuy"
  /\ ~isRawLink(link)
  /\ "extractRawLink" \in Range(steps)
  /\ out.ok
  /\ object.marketplace = "weidian" /\ object.id = IdPool[1]

\* a raw link accepted directly
C12_RawWitness ==
  /\ op = "CnStoreLink"
  /\ isRawLink(link)
  /\ steps = <<"isRawLink">>
  /\ object.marketplace = "weidian"

\* the inner link decoded from an agent link is of no marketplace
C12_NoMarketplaceReached ==
  /\ op = "CnStoreLink"
  /\ extractRawLink(link).ok
  /\ extractRawLink(link).href = OtherLink
  /\ ~out.ok /\ Includes(out.message, OtherLink)

\* C13: safeInstantiate never raises; it succeeds exactly when the
\* constructor succeeds, with the same marketplace and id, and otherwise
\* returns the message of the constructor's failure unchanged.
C13_SafeInstantiate ==
  op = "safeInstantiate" =>
    /\ out.ok
    /\ safe.success <=> CnStoreLink(link, referrals).res.ok
    /\ safe.success =>
         /\ object = CnStoreLink(link, referrals).object
         /\ safe.error = Undefined
    /\ ~safe.success =>
         /\ safe.error = CnStoreLink(link, referrals).res.message
         /\ safe.error # Empty
         /\ object = NoObject

\* a failure of the constructor returned as a message
C13_Witness ==
  /\ op = "safeInstantiate"
  /\ ~safe.success
  /\ safe.error = NeitherDetected(link).message

\* C14: as(target, referral) hands the explicit referral to the encoder when
\* one is given; otherwise the entry of the target in the referrals of the
\* object, and nothing for target raw; never the entry of another agent.
C14_ReferralResolution ==
  op = "as" =>
    /\ ~Falsy(args.referral) => passed = args.referral
    /\ (Falsy(args.referral) /\ args.agent = "raw") => passed = Undefined
    /\ (Falsy(args.referral) /\ args.agent # "raw") =>
         /\ (\E i \in 1..Len(object.referrals) : object.referrals[i][1] = args.agent) =>
              \E i \in 1..Len(object.referrals) :
                object.referrals[i] = <<args.agent, passed>>
         /\ (\A i \in 1..Len(object.referrals) : object.referrals[i][1] # args.agent) =>
              passed = Undefined
    /\ out = generateAgentLink(args.agent, object.marketplace, object.id, passed, args.ra)

\* the entry of the target is used when no referral is given
C14_Witness ==
  /\ op = "as"
  /\ args.agent = "pandabuy"
  /\ args.referral = Undefined
  /\ object.referrals = << <<"pandabuy", ReferralPool[1]>> >>
  /\ passed = ReferralPool[1]
  /\ out.ok
  /\ ParamsGet(SearchParams(ParseURL(out.href)), <<"inviteCode">>) = ReferralPool[1]

\* C15: deserialize(x.serialize()) succeeds with the marketplace and the id
\* of x; the raw link of every marketplace and id is a raw link whose
\* marketplace and id are detected as that marketplace and that id.
C15_SerializationRoundTrip ==
  op = "deserialize" =>
    /\ out.ok
    /\ object.marketplace = args.marketplace
    /\ object.id = args.id
    /\ \A m \in marketplaces, i \in Ids :
         /\ generateRawLink(m, i).ok
         /\ isRawLink(ParseURL(generateRawLink(m, i).href))
         /\ detectMarketplace(ParseURL(generateRawLink(m, i).href)) = m
         /\ extractId(ParseURL(generateRawLink(m, i).href)).id = i

\* an object of tmall, built from an agent link or a raw link, restored
C15_Witness ==
  /\ op = "deserialize"
  /\ args.marketplace = "tmall"
  /\ out.ok
  /\ object.marketplace = "tmall" /\ object.id = args.id

\* C16: the link of pandabuy carries the tracking tag under `ra`, and "1"
\* when no tag is given; the link of every other agent is the same with and
\* without a tracking tag.
C16_TrackingTag ==
  (op = "generateAgentLink" /\ args.marketplace \in marketplaces) =>
    /\ args.agent = "pandabuy" =>
         /\ out.ok
         /\ ParamsGet(SearchParams(ParseURL(out.href)), <<"ra">>)
              = IF args.ra \in {Undefined, Null} THEN <<"1">> ELSE args.ra
    /\ args.agent # "pandabuy" =>
         out = generateAgentLink(args.agent, args.marketplace, args.id,
                                 args.referral, Undefined)

\* a pandabuy link with the tag given
C16_Witness ==
  /\ op = "generateAgentLink"
  /\ args.agent = "pandabuy"
  /\ args.ra = TrackingPool[1]
  /\ out.ok
  /\ ParamsGet(SearchParams(ParseURL(out.href)), <<"ra">>) = TrackingPool[1]
  /\ TrackingPool[1] # <<"1">>

\* C17: generateAgentLink('pandabuy', 'weidian', '1625671124', 'myC0d3') is
\* exactly https://www.pandabuy.com/shopdetail?ra=1&t=wd&id=1625671124&inviteCode=myC0d3
\* and decoding that link gives weidian and 1625671124.
C17_PandabuyScenario ==
  (/\ op \in {"generateAgentLink", "roundTrip"}
   /\ args = [agent |-> "pandabuy", marketplace |-> "weidian", id |-> <<"1625671124">>,
              referral |-> <<"myC0d3">>, ra |-> Undefined]) =>
    /\ op = "generateAgentLink" =>
         /\ out.ok
         /\ out.href = Scheme \o <<"www.", "pandabuy.com", "/", "shopdetail", "?",
                                   "ra", "=", "1", "&", "t", "=", "wd", "&",
                                   "id", "=", "1625671124", "&",
                                   "inviteCode", "=", "myC0d3">>
    /\ op = "roundTrip" =>
         /\ out.ok
         /\ detectMarketplace(ParseURL(out.href)) = "weidian"
         /\ extractId(ParseURL(out.href)).id = <<"1625671124">>

\* the agents whose registered hostname is the hostname of the link, a
\* leading "www." or "m." aside
MatchingAgents(u) ==
  {a \in agents : \/ HostDomain(u.host) = <<AgentDomain(a)>>
                  \/ a = "sugargoo" /\ HostDomain(u.host) = <<"esugargoo.com">>}

\* getRawLink() with the two checks in the other order
getRawLinkAgentFirst(u) ==
  IF isAgentLink(u) THEN extractRawLink(u)
  ELSE IF isRawLink(u) THEN Return(Href(u))
  ELSE NeitherDetected(u)

WithoutHtml(u) ==
  IF Len(u.pathname) > 2 /\ SubSeq(u.pathname, Len(u.pathname) - 1, Len(u.pathname)) = <<".", "html">>
  THEN [u EXCEPT !.pathname = SubSeq(u.pathname, 1, Len(u.pathname) - 2)]
  ELSE u

\* the marketplace decryptCssbuy maps the cssbuy link of a marketplace to
CssbuyMarketplace(marketplace) == IF marketplace = "tmall" THEN "taobao" ELSE marketplace

\* C20: decryptCssbuy of the cssbuy link of (m, id) is the raw link of
\* (m, id) for weidian, 1688 and taobao and the taobao raw link for tmall,
\* the prefixes /item-micro, /item-1688, /item being tested in this order and
\* the id ending at the first "."; the result is the same without ".html" and
\* with or without a promotionCode parameter.
C20_CssbuyPathMapping ==
  (op = "generateAgentLink" /\ args.agent = "cssbuy" /\ args.marketplace \in marketplaces) =>
    /\ out.ok
    /\ decryptCssbuy(ParseURL(out.href))
         = generateRawLink(CssbuyMarketplace(args.marketplace), args.id)
    /\ decryptCssbuy(WithoutHtml(ParseURL(out.href)))
         = generateRawLink(CssbuyMarketplace(args.marketplace), args.id)
    /\ decryptCssbuy([ParseURL(out.href) EXCEPT !.search = <<>>])
         = generateRawLink(CssbuyMarketplace(args.marketplace), args.id)
    /\ WithoutHtml(ParseURL(out.href)) # ParseURL(out.href)
    /\ ~Falsy(args.referral) =>
         ParamsHas(SearchParams(ParseURL(out.href)), <<"promotionCode">>)

\* the paths of cssbuy links that hold no id
PathsWithoutId ==
  {<<"/">>, <<"/", "item">>, <<"/", "item", "-", "micro">>, <<"/", "item", "-", "1688">>,
   <<"/", "item", "s", "/", "x">>}

\* C21: for a cssbuy link whose path holds no id, decryptCssbuy returns
\* undefined and does not raise, and extractRawLink (the link carrying no
\* inner parameter either) fails with 'Error extracting inner link, cssbuy
\* link could not be decrypted: <href>'.
C21_CssbuyFailureMode ==
  (op = "extractRawLink" /\ detectAgent(link) = "cssbuy"
     /\ link.pathname \in PathsWithoutId) =>
    /\ decryptCssbuy(link) = Return(Undefined)
    /\ Falsy(extractInnerParam(link)) =>
         /\ ~out.ok
         /\ Includes(out.message,
                     <<"Error extracting inner link, ", "cssbuy link could not be decrypted",
                       ": ">> \o Href(link))

\* C22: the hoobuy link of (m, id) has the path /product/<code>/<id> with
\* code 0 for 1688, 1 for taobao and tmall, 2 for weidian; decoding a hoobuy
\* link maps 0 to 1688, 1 to taobao and 2 to weidian, for /product/<code>/<id>
\* and for /m/product/<code>/<id>, whatever the query.
C22_HoobuyCode ==
  /\ (op = "generateAgentLink" /\ args.agent = "hoobuy"
        /\ args.marketplace \in marketplaces) =>
       /\ out.ok
       /\ ParseURL(out.href).pathname
            = <<"/", "product", "/">>
              \o (CASE args.marketplace = "1688" -> <<"0">>
                    [] args.marketplace = "taobao" -> <<"1">>
                    [] args.marketplace = "tmall" -> <<"1">>
                    [] args.marketplace = "weidian" -> <<"2">>)
              \o <<"/">> \o args.id
  /\ (op = "roundTrip" /\ args.agent = "hoobuy" /\ args.marketplace \in marketplaces) =>
       /\ out.ok
       /\ out.href = generateRawLink(IF args.marketplace = "tmall" THEN "taobao"
                                     ELSE args.marketplace, args.id).href
  /\ (op = "extractRawLink" /\ detectAgent(link) = "hoobuy") =>
       /\ link.pathname = <<"/", "m", "/", "product", "/", "0", "/">> \o IdPool[1] =>
            out = generateRawLink("1688", IdPool[1])
       /\ link.pathname = <<"/", "m", "/", "product", "/", "1", "/">> \o IdPool[1] =>
            out = generateRawLink("taobao", IdPool[1])
       /\ link.pathname = <<"/", "m", "/", "product", "/", "2", "/">> \o IdPool[1] =>
            out = generateRawLink("weidian", IdPool[1])

\* a taobao link with a referral in its query, decoded from its path
C22_Witness ==
  /\ op = "roundTrip"
  /\ args.agent = "hoobuy" /\ args.marketplace = "taobao"
  /\ args.referral = ReferralPool[1]
  /\ link.pathname = <<"/", "product", "/", "1", "/">> \o args.id
  /\ link.search # <<>>
  /\ steps = <<"bespoke">>
  /\ out.ok /\ out.href = generateRawLink("taobao", args.id).href

\* a mobile link with a query that is not its own
C22_MobileWitness ==
  /\ op = "extractRawLink"
  /\ link.host = <<"hoobuy.com">>
  /\ link.pathname = <<"/", "m", "/", "product", "/", "0", "/">> \o IdPool[1]
  /\ link.search = <<"url", "=", "junk">>
  /\ out = generateRawLink("1688", IdPool[1])

\* the agents for which extractRawLink has no decoder
AgentsOfFallback ==
  {"pandabuy", "wegobuy", "hagobuy", "hegobuy", "allchinabuy", "eastmallbuy",
   "blikbuy", "loongbuy"}

TagAgents ==
  {"cssbuy", "cnfans", "mulebuy", "joyabuy", "orientdig", "hoobuy", "basetao",
   "lovegobuy", "ponybuy", "oopbuy", "panglobalbuy", "sifubuy"}

\* C24: the round trip through an agent that embeds the raw link itself
\* returns the raw link of every marketplace, tmall included; a tmall link
\* comes back as the taobao link only through an agent that encodes the
\* marketplace as a tag or path segment; taobao, weidian and 1688 never come
\* back as another marketplace.
C24_AliasingConfined ==
  (op = "roundTrip" /\ args.agent \in agents /\ args.marketplace \in marketplaces) =>
    /\ args.agent \in EmbeddingAgents \cup TagAgents
    /\ args.agent \in EmbeddingAgents =>
         out = generateRawLink(args.marketplace, args.id)
    /\ (out.ok /\ args.marketplace # "tmall") =>
         /\ out = generateRawLink(args.marketplace, args.id)
         /\ detectMarketplace(ParseURL(out.href)) = args.marketplace
    /\ (out.ok /\ args.marketplace = "tmall"
          /\ out # generateRawLink("tmall", args.id)) =>
         /\ args.agent \in TagAgents
         /\ out = generateRawLink("taobao", args.id)

\* a tmall link embedded under `key` comes back as the tmall link
C24_Witness ==
  /\ op = "roundTrip"
  /\ args.agent = "ezbuycn" /\ args.marketplace = "tmall"
  /\ out = generateRawLink("tmall", args.id)
  /\ detectMarketplace(ParseURL(out.href)) = "tmall"

\* a tmall link encoded as a tag comes back as the taobao link
C24_CollapseWitness ==
  /\ op = "roundTrip"
  /\ args.agent = "cnfans" /\ args.marketplace = "tmall"
  /\ out = generateRawLink("taobao", args.id)

\* C25: the link generateAgentLink returns for an agent and a supported
\* marketplace is detected as a link of that agent and of no other, and is
\* not a raw link; also when its host has no "www." and when it is
\* hash-routed.
C25_HostConsistency ==
  (op = "generateAgentLink" /\ args.agent \in agents
     /\ args.marketplace \in marketplaces /\ out.ok) =>
    /\ detectAgent(ParseURL(out.href)) = args.agent
    /\ MatchingAgents(ParseURL(out.href)) = {args.agent}
    /\ isAgentLink(ParseURL(out.href))
    /\ ~isRawLink(ParseURL(out.href))
    /\ args.agent \in {"cnfans", "mulebuy", "joyabuy", "orientdig", "ezbuycn",
                       "eastmallbuy", "panglobalbuy"}
         <=> ParseURL(out.href).host[1] # "www."
    /\ args.agent \in {"sugargoo", "panglobalbuy"} <=> ParseURL(out.href).hash # <<>>

\* a hash-routed link on a host without "www."
C25_Witness ==
  /\ op = "generateAgentLink"
  /\ args.agent = "panglobalbuy"
  /\ out.ok
  /\ ParseURL(out.href).host = <<"panglobalbuy.com">>
  /\ ParseURL(out.href).hash # <<>>
  /\ detectAgent(ParseURL(out.href)) = "panglobalbuy"

====
